---- MODULE Spec2Model ----
(***************************************************************************)
(* The curator workflow of src/nodes/curator_graph.py: one call of         *)
(* CuratorAgent.analyze_case, which runs the compiled three-node graph     *)
(* (analyze_patterns, classify_type, generate_summary) over a CuratorState *)
(* and maps the final state to a FraudAnalysis.                            *)
(*                                                                         *)
(* The three agents are remote language-model calls: what each returns is  *)
(* a nondeterministic choice among well-formed and malformed responses.    *)
(* Every call is taken to return; an exception raised inside llm.invoke is *)
(* not modelled.  FraudAnalysis.timestamp (datetime.now()) is left out: no *)
(* node reads it.                                                          *)
(***************************************************************************)
EXTENDS Integers, Sequences, FiniteSets, TLC

VARIABLES
    text_input,      \* analyze_case argument text_input.text
    similar_cases,   \* analyze_case argument similar_cases
    state,           \* the CuratorState carried between the nodes
    pc,              \* the node about to run, END, "returned" or "raised"
    calls,           \* the agents invoked so far, in order
    pattern_result,  \* what pattern_agent.analyze returned (NoneDict: not called)
    type_result,     \* what type_agent.classify returned
    summary_result,  \* what summary_agent.summarize returned
    analysis,        \* the FraudAnalysis analyze_case returned (NoneDict: none)
    error            \* the message of the ValueError raised (None: none)

vars == <<text_input, similar_cases, state, pc, calls, pattern_result,
          type_result, summary_result, analysis, error>>

----------------------------------------------------------------------------
(* Python values.  A str is a TLA+ string, a List[str] a sequence, a Dict   *)
(* a record; None is one value for str-typed places and one for Dict-typed  *)
(* places.  A bool arriving from an agent is the token "True" or "False".   *)

None == "<None>"

NoneDict == [none |-> TRUE]

END == "__end__"

EntryPoint == "analyze_patterns"

----------------------------------------------------------------------------
(* Bounds and the inputs drawn from them. *)

MaxCases == 2

Texts == {"a phishing mail", "a price dispute"}

Cases == {"PHISHING", "ROMANCE"}

SeqsUpTo(S, n) == UNION {[1..k -> S] : k \in 0..n}

SimilarCasesInputs == SeqsUpTo(Cases, MaxCases)

(* What the language model may put in each field of its response. *)
RawBools == {"True", "False", "yes", "no", None}

RawReasonings == {"why", None}

RawPatterns == {<< >>, <<"urgency">>, <<None>>}

RawFraudTypes == {"PHISHING", "NEW", None}

RawExplanations == {"because", None}

RawNewTypeNames == {"SYNTHETIC IDENTITY", "", None}

RawSummaries == {"beware", "", None}

RawWarningSigns == {<<"sign">>, <<None>>}

RawPrecautions == {<<"check">>, <<None>>}

PatternResponses ==
    [is_fraud : RawBools, patterns : RawPatterns, reasoning : RawReasonings]

TypeResponses ==
    [fraud_type : RawFraudTypes, explanation : RawExplanations,
     new_type_name : RawNewTypeNames]

SummaryResponses ==
    [summary : RawSummaries, warning_signs : RawWarningSigns,
     precautions : RawPrecautions]

----------------------------------------------------------------------------
(* pydantic validation of the three output models (model_validate) and     *)
(* their serialisation (model_dump).                                       *)

\* bool field, lax mode: a bool, or one of the strings pydantic reads as one
ValidBool(v) == v \in {"True", "False", "yes", "no"}

ToBool(v) == v \in {"True", "yes"}

\* required str field
ValidStr(v) == v # None

\* List[str] field: every element a str
ValidStrList(l) == \A i \in 1..Len(l) : l[i] # None

PatternAnalysisOutput_valid(r) ==
    /\ ValidBool(r.is_fraud)
    /\ ValidStrList(r.patterns)
    /\ ValidStr(r.reasoning)

PatternAnalysisOutput_dump(r) ==
    [is_fraud |-> ToBool(r.is_fraud), patterns |-> r.patterns,
     reasoning |-> r.reasoning]

\* new_type_name is Optional[str]: None, "" and any name all pass
FraudTypeOutput_valid(r) ==
    /\ ValidStr(r.fraud_type)
    /\ ValidStr(r.explanation)

FraudTypeOutput_dump(r) ==
    [fraud_type |-> r.fraud_type, explanation |-> r.explanation,
     new_type_name |-> r.new_type_name]

FraudSummaryOutput_valid(r) ==
    /\ ValidStr(r.summary)
    /\ ValidStrList(r.warning_signs)
    /\ ValidStrList(r.precautions)

FraudSummaryOutput_dump(r) ==
    [summary |-> r.summary, warning_signs |-> r.warning_signs,
     precautions |-> r.precautions]

----------------------------------------------------------------------------
(* CuratorState(text=..., similar_cases=...) with the class's defaults. *)

CuratorState(text, cases) ==
    [text |-> text, similar_cases |-> cases, pattern_analysis |-> NoneDict,
     fraud_type |-> NoneDict, final_summary |-> None, is_fraud |-> FALSE,
     new_type_name |-> None]

Init ==
    /\ text_input \in Texts
    /\ similar_cases \in SimilarCasesInputs
    /\ state = CuratorState(text_input, similar_cases)
    /\ pc = EntryPoint
    /\ calls = << >>
    /\ pattern_result = NoneDict
    /\ type_result = NoneDict
    /\ summary_result = NoneDict
    /\ analysis = NoneDict
    /\ error = None

----------------------------------------------------------------------------
(* The graph: the conditional edge out of analyze_patterns and the two     *)
(* unconditional edges.                                                    *)

\* mutant: the conditional edge always takes the "classify" branch
should_classify_always(s) == "classify"

should_classify(s) == IF s.is_fraud THEN "classify" ELSE "end"

ConditionalEdges == [classify |-> "classify_type", end |-> END]

\* mutant: classify_type wired straight to END, generate_summary left out
Edge_skip_summary(node) == END

\* mutant: generate_summary wired back to classify_type
Edge_loop(node) ==
    CASE node = "classify_type" -> "generate_summary"
      [] node = "generate_summary" -> "classify_type"

Edge(node) ==
    CASE node = "classify_type" -> "generate_summary"
      [] node = "generate_summary" -> END

----------------------------------------------------------------------------
(* What each node writes into the state once its agent's output validated. *)
(* rm is result_model.model_dump().                                        *)

analyze_patterns_update(s, rm) ==
    [s EXCEPT !.pattern_analysis = rm, !.is_fraud = rm.is_fraud]

\* mutant: the "NEW" branch never copies the new name into the state
classify_type_update_no_copy(s, rm) == [s EXCEPT !.fraud_type = rm]

\* mutant: the new name is copied whatever fraud_type is
classify_type_update_always_copy(s, rm) ==
    [s EXCEPT !.fraud_type = rm, !.new_type_name = rm.new_type_name]

\* mutant: classify_type also resets the fraud flag to its default
classify_type_update_resets_flag(s, rm) ==
    LET s1 == [s EXCEPT !.fraud_type = rm, !.is_fraud = FALSE]
    IN  IF s1.fraud_type.fraud_type = "NEW"
        THEN [s1 EXCEPT !.new_type_name = s1.fraud_type.new_type_name]
        ELSE s1

classify_type_update(s, rm) ==
    LET s1 == [s EXCEPT !.fraud_type = rm]
    IN  IF s1.fraud_type.fraud_type = "NEW"
        THEN [s1 EXCEPT !.new_type_name = s1.fraud_type.new_type_name]
        ELSE s1

generate_summary_update(s, rm) ==
    [s EXCEPT !.final_summary = rm.summary]

(* A node function on state s when its agent returned r: the state it      *)
(* returns, or the ValueError it raises.                                   *)

analyze_patterns_node(s, r) ==
    IF PatternAnalysisOutput_valid(r)
    THEN [ok |-> TRUE,
          state |-> analyze_patterns_update(s, PatternAnalysisOutput_dump(r)),
          error |-> None]
    ELSE [ok |-> FALSE, state |-> s,
          error |-> "Error al validar el resultado de PatternAnalysisAgent"]

classify_type_node(s, r) ==
    IF FraudTypeOutput_valid(r)
    THEN [ok |-> TRUE,
          state |-> classify_type_update(s, FraudTypeOutput_dump(r)),
          error |-> None]
    ELSE [ok |-> FALSE, state |-> s,
          error |-> "Error al validar el resultado de FraudTypeAgent"]

\* mutant: the validation error is swallowed and the state passed on
generate_summary_node_swallow(s, r) ==
    IF FraudSummaryOutput_valid(r)
    THEN [ok |-> TRUE,
          state |-> generate_summary_update(s, FraudSummaryOutput_dump(r)),
          error |-> None]
    ELSE [ok |-> TRUE, state |-> s, error |-> None]

generate_summary_node(s, r) ==
    IF FraudSummaryOutput_valid(r)
    THEN [ok |-> TRUE,
          state |-> generate_summary_update(s, FraudSummaryOutput_dump(r)),
          error |-> None]
    ELSE [ok |-> FALSE, state |-> s,
          error |-> "Error al validar el resultado de SummaryAgent"]

----------------------------------------------------------------------------
(* analyze_case: the FraudAnalysis built from the final state. *)

\* mutant: `a if a is not None else b`, an empty summary kept
PyOr_none_only(a, b) == IF a = None THEN b ELSE a

\* Python's `a or b` on an Optional[str]: None and "" are both falsy
PyOr(a, b) == IF a = None \/ a = "" THEN b ELSE a

Reverse(q) == [i \in 1..Len(q) |-> q[Len(q) + 1 - i]]

\* mutant: the similar cases are echoed newest first
analyze_case_result_reversed(final_state, cases) ==
    IF final_state.is_fraud
    THEN [is_fraud |-> TRUE,
          fraud_type |-> final_state.fraud_type.fraud_type,
          explanation |-> PyOr(final_state.final_summary,
                               final_state.pattern_analysis.reasoning),
          similar_cases |-> Reverse(cases),
          new_type_name |-> final_state.new_type_name]
    ELSE [is_fraud |-> FALSE,
          fraud_type |-> "NO_FRAUD",
          explanation |-> final_state.pattern_analysis.reasoning,
          similar_cases |-> Reverse(cases),
          new_type_name |-> None]

analyze_case_result(final_state, cases) ==
    IF final_state.is_fraud
    THEN [is_fraud |-> TRUE,
          fraud_type |-> final_state.fraud_type.fraud_type,
          explanation |-> PyOr(final_state.final_summary,
                               final_state.pattern_analysis.reasoning),
          similar_cases |-> cases,
          new_type_name |-> final_state.new_type_name]
    ELSE [is_fraud |-> FALSE,
          fraud_type |-> "NO_FRAUD",
          explanation |-> final_state.pattern_analysis.reasoning,
          similar_cases |-> cases,
          new_type_name |-> None]

----------------------------------------------------------------------------
(* The steps of one analyze_case call. *)

analyze_patterns ==
    /\ pc = "analyze_patterns"
    /\ \E r \in PatternResponses :
         LET out == analyze_patterns_node(state, r)
         IN  /\ calls' = Append(calls, "pattern_agent")
             /\ pattern_result' = r
             /\ state' = out.state
             /\ error' = out.error
             /\ pc' = IF out.ok
                      THEN ConditionalEdges[should_classify(out.state)]
                      ELSE "raised"
    /\ UNCHANGED <<text_input, similar_cases, type_result, summary_result,
                   analysis>>

classify_type ==
    /\ pc = "classify_type"
    /\ \E r \in TypeResponses :
         LET out == classify_type_node(state, r)
         IN  /\ calls' = Append(calls, "type_agent")
             /\ type_result' = r
             /\ state' = out.state
             /\ error' = out.error
             /\ pc' = IF out.ok THEN Edge("classify_type") ELSE "raised"
    /\ UNCHANGED <<text_input, similar_cases, pattern_result, summary_result,
                   analysis>>

generate_summary ==
    /\ pc = "generate_summary"
    /\ \E r \in SummaryResponses :
         LET out == generate_summary_node(state, r)
         IN  /\ calls' = Append(calls, "summary_agent")
             /\ summary_result' = r
             /\ state' = out.state
             /\ error' = out.error
             /\ pc' = IF out.ok THEN Edge("generate_summary") ELSE "raised"
    /\ UNCHANGED <<text_input, similar_cases, pattern_result, type_result,
                   analysis>>

\* workflow.invoke returned: map the final state to the FraudAnalysis
analyze_case_return ==
    /\ pc = END
    /\ analysis' = analyze_case_result(state, similar_cases)
    /\ pc' = "returned"
    /\ UNCHANGED <<text_input, similar_cases, state, calls, pattern_result,
                   type_result, summary_result, error>>

Next ==
    \/ analyze_patterns
    \/ classify_type
    \/ generate_summary
    \/ analyze_case_return

Spec == Init /\ [][Next]_vars

\* every agent call returns and the interpreter keeps running
FairSpec == Spec /\ WF_vars(Next)

----------------------------------------------------------------------------
(* Properties. *)

AgentOrder == <<"pattern_agent", "type_agent", "summary_agent">>

\* C1: when the validated pattern analysis says is_fraud = false, the
\* workflow goes from analyze_patterns straight to END: only the pattern
\* agent was ever invoked, and the FraudAnalysis returned has
\* is_fraud = false, fraud_type = "NO_FRAUD" and the pattern analysis's
\* reasoning as its explanation.
C1_NoFraudSkipsToEnd ==
    (state.pattern_analysis # NoneDict /\ ~state.pattern_analysis.is_fraud) =>
        /\ calls = <<"pattern_agent">>
        /\ pc \in {END, "returned"}
        /\ pc = "returned" =>
             /\ analysis.is_fraud = FALSE
             /\ analysis.fraud_type = "NO_FRAUD"
             /\ analysis.explanation = state.pattern_analysis.reasoning
             /\ analysis.explanation = pattern_result.reasoning

C1_Witness ==
    /\ pc = "returned"
    /\ pattern_result # NoneDict
    /\ pattern_result.is_fraud = "no"
    /\ analysis.fraud_type = "NO_FRAUD"
    /\ analysis.explanation = "why"

\* C2: a run that returns with fraud detected invoked the pattern agent,
\* then the type agent, then the summary agent, each exactly once; at every
\* moment the agents invoked so far are a prefix of that order.
C2_FraudCallsOnceInOrder ==
    /\ Len(calls) <= 3
    /\ \A i \in 1..Len(calls) : calls[i] = AgentOrder[i]
    /\ (pc = "returned" /\ state.is_fraud) => calls = AgentOrder

C2_Witness ==
    /\ pc = "returned"
    /\ analysis.is_fraud
    /\ calls = AgentOrder

Aborted ==
    /\ pc = "raised"
    /\ error # None
    /\ analysis = NoneDict

\* C3: an agent output that fails validation makes that node raise: the run
\* is aborted with an error, the state is left as it was, no step follows,
\* and no FraudAnalysis exists; a FraudAnalysis exists only for a run that
\* raised nothing and ran every node its branch has.
C3_ValidationFailureAborts ==
    /\ [][/\ (pc = "analyze_patterns"
                /\ ~PatternAnalysisOutput_valid(pattern_result'))
             => (Aborted' /\ state' = state)
          /\ (pc = "classify_type" /\ ~FraudTypeOutput_valid(type_result'))
             => (Aborted' /\ state' = state)
          /\ (pc = "generate_summary"
                /\ ~FraudSummaryOutput_valid(summary_result'))
             => (Aborted' /\ state' = state)
          /\ pc # "raised"]_vars
    /\ [](pc = "raised" => Aborted)
    /\ [](error # None => pc = "raised")
    /\ [](analysis # NoneDict =>
            /\ pc = "returned"
            /\ error = None
            /\ state.pattern_analysis # NoneDict
            /\ state.is_fraud =>
                 (state.fraud_type # NoneDict /\ state.final_summary # None))

C3_Witness ==
    /\ pc = "raised"
    /\ calls = <<"pattern_agent", "type_agent">>
    /\ ~FraudTypeOutput_valid(type_result)
    /\ error = "Error al validar el resultado de FraudTypeAgent"
    /\ analysis = NoneDict

\* C4: in a returned FraudAnalysis, new_type_name is the name the type agent
\* returned when that agent returned fraud_type = "NEW", and is None whenever
\* the result's fraud_type is not "NEW", whatever name the agent sent along.
C4_NewTypeNameOnlyForNew ==
    pc = "returned" =>
        /\ (type_result # NoneDict /\ type_result.fraud_type = "NEW")
             => analysis.new_type_name = type_result.new_type_name
        /\ analysis.fraud_type # "NEW" => analysis.new_type_name = None

C4_Witness ==
    /\ pc = "returned"
    /\ type_result # NoneDict
    /\ type_result.fraud_type = "NEW"
    /\ analysis.new_type_name = "SYNTHETIC IDENTITY"

\* C5: every FraudTypeOutput that classify_type accepted and stored has a
\* non-empty new_type_name if and only if its fraud_type is "NEW".
C5_NewNameIffNew ==
    state.fraud_type # NoneDict =>
        ((state.fraud_type.new_type_name \notin {None, ""})
            <=> (state.fraud_type.fraud_type = "NEW"))

\* C6: is_fraud changes only in the analyze_patterns step, never in
\* classify_type or generate_summary; and whenever fraud_type or
\* new_type_name of the state is populated, is_fraud is true.
C6_FraudFlagWrittenOnce ==
    /\ [][state'.is_fraud # state.is_fraud => pc = "analyze_patterns"]_vars
    /\ []((state.fraud_type # NoneDict \/ state.new_type_name # None)
            => state.is_fraud)

C6_Witness ==
    /\ pc = "returned"
    /\ state.is_fraud
    /\ state.fraud_type # NoneDict
    /\ state.new_type_name # None

\* C7: the state's similar_cases stays the sequence analyze_case was given,
\* and the returned FraudAnalysis carries that same sequence, on either
\* branch.
C7_SimilarCasesEchoed ==
    /\ state.similar_cases = similar_cases
    /\ pc = "returned" => analysis.similar_cases = similar_cases

C7_Witness ==
    /\ pc = "returned"
    /\ analysis.is_fraud
    /\ similar_cases = <<"ROMANCE", "PHISHING">>
    /\ analysis.similar_cases = <<"ROMANCE", "PHISHING">>

\* C8 as stated: a returned fraud result has is_fraud = true, the type
\* agent's fraud_type, and the summary agent's summary text as explanation;
\* the explanation is the pattern reasoning only when the final state has no
\* summary.
C8_ExplanationIsSummary ==
    (pc = "returned" /\ state.is_fraud) =>
        /\ analysis.is_fraud
        /\ analysis.fraud_type = type_result.fraud_type
        /\ analysis.explanation = summary_result.summary
        /\ analysis.explanation = state.pattern_analysis.reasoning
             => state.final_summary = None

\* C8 amended: a returned fraud result has is_fraud = true, the type agent's
\* fraud_type, and as explanation the summary agent's summary text when that
\* text is not empty, the pattern reasoning when it is empty.
C8_ExplanationIsNonEmptySummary ==
    (pc = "returned" /\ state.is_fraud) =>
        /\ analysis.is_fraud
        /\ analysis.fraud_type = type_result.fraud_type
        /\ summary_result.summary # "" =>
             analysis.explanation = summary_result.summary
        /\ summary_result.summary = "" =>
             analysis.explanation = pattern_result.reasoning

C8_Witness ==
    /\ pc = "returned"
    /\ state.is_fraud
    /\ summary_result.summary = ""
    /\ analysis.explanation = "why"

ForwardEdges ==
    {<<"analyze_patterns", "classify_type">>,
     <<"analyze_patterns", END>>,
     <<"classify_type", "generate_summary">>,
     <<"generate_summary", END>>,
     <<"analyze_patterns", "raised">>,
     <<"classify_type", "raised">>,
     <<"generate_summary", "raised">>,
     <<END, "returned">>}

ForwardStep == <<pc, pc'>> \in ForwardEdges

\* C9: a run starts at analyze_patterns, moves only along
\* analyze_patterns -> classify_type -> generate_summary -> END, the skip
\* edge analyze_patterns -> END, or into an error abort, runs no node
\* twice and at most three nodes, and, every agent call returning,
\* eventually reaches END or the abort.
C9_ForwardOnlyAndTerminates ==
    /\ pc = EntryPoint
    /\ [][ForwardStep]_vars
    /\ [](/\ Len(calls) <= 3
          /\ \A i, j \in 1..Len(calls) : calls[i] = calls[j] => i = j)
    /\ <>(pc \in {END, "raised"})

C9_Witness ==
    /\ pc = END
    /\ Len(calls) = 3

Keeps(s, t, fields) == \A f \in fields : t[f] = s[f]

\* C10: a step of analyze_patterns changes only pattern_analysis and
\* is_fraud; a step of classify_type only fraud_type, and new_type_name
\* when the stored fraud_type is "NEW"; a step of generate_summary only
\* final_summary; text and similar_cases never change, and a populated
\* field keeps its value.
C10_NodesWriteOwnFields ==
    [][/\ Keeps(state, state', {"text", "similar_cases"})
       /\ pc = "analyze_patterns" =>
            Keeps(state, state', {"fraud_type", "new_type_name",
                                  "final_summary"})
       /\ pc = "classify_type" =>
            /\ Keeps(state, state', {"pattern_analysis", "is_fraud",
                                     "final_summary"})
            /\ state'.new_type_name # state.new_type_name =>
                 state'.fraud_type.fraud_type = "NEW"
       /\ pc = "generate_summary" =>
            Keeps(state, state', {"pattern_analysis", "is_fraud",
                                  "fraud_type", "new_type_name"})
       /\ state.pattern_analysis # NoneDict =>
            state'.pattern_analysis = state.pattern_analysis
       /\ state.fraud_type # NoneDict => state'.fraud_type = state.fraud_type
       /\ state.final_summary # None =>
            state'.final_summary = state.final_summary
       /\ state.new_type_name # None =>
            state'.new_type_name = state.new_type_name]_vars

C10_Witness ==
    /\ pc = "returned"
    /\ state.pattern_analysis # NoneDict
    /\ state.fraud_type # NoneDict
    /\ state.new_type_name = "SYNTHETIC IDENTITY"
    /\ state.final_summary = "beware"

====
